---- MODULE Spec2Model ----
(***************************************************************************)
(* midea-local: the attribute translation layer of the A1 (dehumidifier),  *)
(* B1 (oven) and EC (cooker) device handlers.  One device handler is       *)
(* modelled: its attribute dictionary, the protocol version it threads     *)
(* into outbound messages, and the calls the host makes on it              *)
(* (process_message, build_query, set_attribute).  The host serializes the *)
(* calls: it takes what a call produced before it makes the next one.      *)
(***************************************************************************)
EXTENDS Integers, Sequences, FiniteSets, TLC

VARIABLES
    device_type,                \* DeviceType of the handler: "A1", "B1" or "EC"
    attributes,                 \* self._attributes
    message_protocol_version,   \* self._message_protocol_version
    inbound,                    \* the message the host is about to dispatch, or None
    call,                       \* the call that has just returned, with its arguments
    result,                     \* what that call returned
    transmitted,                \* messages that call handed to build_send
    published,                  \* status dicts that call handed to update_all
    raised                      \* whether that call ended in an exception

vars == <<device_type, attributes, message_protocol_version, inbound, call, result,
          transmitted, published, raised>>

(***************************************************************************)
(* Python values.  The attribute dictionaries mix None, bool, int and str  *)
(* (water_level_set starts as the int 50 and is decoded to a str), so each *)
(* value carries its type.                                                 *)
(***************************************************************************)
None == [t |-> "none"]
PyBool(b) == [t |-> "bool", b |-> b]
PyInt(n) == [t |-> "int", i |-> n]
PyStr(s) == [t |-> "str", s |-> s]

\* Bounds of the model.
MaxRaw == 255          \* raw field codes range over 0..MaxRaw
MaxFields == 1         \* an inbound message exposes at most this many schema fields
MaxVersion == 2        \* protocol-version tags range over 1..MaxVersion
MaxLevel == 2          \* tank and water-level readings range over 0, 25, .. 25 * MaxLevel

RawCodes == 0..MaxRaw
ProtocolVersions == 1..MaxVersion

\* str(n) for an int n, and int(s) for the str s of an int (ValueError otherwise).
str(n) == ToString(n)
IntStrs == {str(n) : n \in RawCodes}
IntOfStr == [s \in IntStrs |-> CHOOSE n \in RawCodes : str(n) = s]
IsIntStr(s) == s \in IntStrs
int(s) == IntOfStr[s]

\* Python's list[i] on a TLA+ sequence: 0-based, negative i counts from the end.
PyIndex(list, i) == IF i >= 0 THEN list[i + 1] ELSE list[Len(list) + i + 1]
\* list.index(x): the 0-based position of the first occurrence.
index(list, x) == (CHOOSE k \in 1..Len(list) :
                      list[k] = x /\ \A j \in 1..(k - 1) : list[j] # x) - 1
Range(list) == {list[k] : k \in 1..Len(list)}

\* A dict as the function on its keys; the empty dict.
EmptyDict == [k \in {} |-> None]
\* d[k] = v
Put(d, k, v) == (k :> v) @@ d

(***************************************************************************)
(* A1: schema and lookup tables                                            *)
(***************************************************************************)
A1_DeviceAttributes ==
    <<"power", "prompt_tone", "child_lock", "mode", "fan_speed", "swing",
      "target_humidity", "anion", "tank", "water_level_set", "tank_full",
      "current_humidity", "current_temperature">>

_modes == <<"Manual", "Continuous", "Auto", "Clothes-Dry", "Shoes-Dry">>

\* _speeds.keys() and _speeds.values(), in the dict's insertion order.
_speeds_keys == <<1, 40, 60, 80, 102, 127>>
_speeds_values == <<"Lowest", "Low", "Medium", "High", "Auto", "Off">>
_speeds == [c \in Range(_speeds_keys) |-> _speeds_values[index(_speeds_keys, c) + 1]]

_water_level_sets == <<"25", "50", "75", "100">>

A1_defaults ==
    [power |-> PyBool(FALSE), prompt_tone |-> PyBool(TRUE), child_lock |-> PyBool(FALSE),
     mode |-> None, fan_speed |-> PyStr("Medium"), swing |-> PyBool(FALSE),
     target_humidity |-> PyInt(35), anion |-> PyBool(FALSE), tank |-> PyInt(0),
     water_level_set |-> PyInt(50), tank_full |-> None,
     current_humidity |-> None, current_temperature |-> None]

(***************************************************************************)
(* B1: schema and lookup table                                             *)
(***************************************************************************)
B1_DeviceAttributes ==
    <<"door", "status", "time_remaining", "current_temperature", "tank_ejected",
      "water_change_reminder", "water_shortage">>

_status == (1 :> "Standby") @@ (2 :> "Idle") @@ (3 :> "Working") @@
           (4 :> "Finished") @@ (5 :> "Delay") @@ (6 :> "Paused")

B1_defaults ==
    [door |-> PyBool(FALSE), status |-> None, time_remaining |-> None,
     current_temperature |-> None, tank_ejected |-> PyBool(FALSE),
     water_change_reminder |-> PyBool(FALSE), water_shortage |-> PyBool(FALSE)]

(***************************************************************************)
(* EC: schema and lookup tables                                            *)
(***************************************************************************)
EC_DeviceAttributes ==
    <<"cooking", "mode", "time_remaining", "keep_warm_time", "top_temperature",
      "bottom_temperature", "progress", "with_pressure">>

_mode_list ==
    <<
       "smart", "reserve", "cook_rice", "fast_cook_rice",
       "standard_cook_rice", "gruel", "cook_congee", "stew_soup",
       "stewing", "heat_rice", "make_cake", "yoghourt",
       "soup_rice", "coarse_rice", "five_ceeals_rice", "eight_treasures_rice",
       "crispy_rice", "shelled_rice", "eight_treasures_congee", "infant_congee",
       "older_rice", "rice_soup", "rice_paste", "egg_custard",
       "warm_milk", "hot_spring_egg", "millet_congee", "firewood_rice",
       "few_rice", "red_potato", "corn", "quick_freeze_bun",
       "steam_ribs", "steam_egg", "coarse_congee", "steep_rice",
       "appetizing_congee", "corn_congee", "sprout_rice", "luscious_rice",
       "luscious_boiled", "fast_rice", "fast_boil", "bean_rice_congee",
       "fast_congee", "baby_congee", "cook_soup", "congee_coup",
       "steam_corn", "steam_red_potato", "boil_congee", "delicious_steam",
       "boil_egg", "rice_wine", "fruit_vegetable_paste", "vegetable_porridge",
       "pork_porridge", "fragrant_rice", "assorte_rice", "steame_fish",
       "baby_rice", "essence_rice", "fragrant_dense_congee", "one_two_cook",
       "original_steame", "hot_fast_rice", "online_celebrity_rice", "sushi_rice",
       "stone_bowl_rice", "no_water_treat", "keep_fresh", "low_sugar_rice",
       "black_buckwheat_rice", "resveratrol_rice", "yellow_wheat_rice", "green_buckwheat_rice",
       "roughage_rice", "millet_mixed_rice", "iron_pan_rice", "olla_pan_rice",
       "vegetable_rice", "baby_side", "regimen_congee", "earthen_pot_congee",
       "regimen_soup", "pottery_jar_soup", "canton_soup", "nutrition_stew",
       "northeast_stew", "uncap_boil", "trichromatic_coarse_grain", "four_color_vegetables",
       "egg", "chop"
    >>
    \o [k \in 1..98 |-> "unknown"]
    \o <<"clean">>
    \o [k \in 1..5 |-> "unknown"]
    \o <<"keep_warm", "diy">>

_progress ==
    <<"Idle", "Cooking", "Delay", "Keep-warm", "Lid-open", "Relieving",
      "Keep-pressure", "Relieving", "Cooking", "Relieving", "Lid-open">>

EC_defaults ==
    [cooking |-> PyBool(FALSE), mode |-> PyInt(0), time_remaining |-> None,
     top_temperature |-> None, bottom_temperature |-> None,
     keep_warm_time |-> None, progress |-> PyStr("Unknown"), with_pressure |-> None]

(***************************************************************************)
(* Messages.  An inbound message is what the codec parsed: its protocol    *)
(* version and the named fields it exposes (hasattr / getattr).            *)
(***************************************************************************)
hasattr(message, name) == name \in DOMAIN message.body
getattr(message, name) == message.body[name]

MessageQuery(protocol_version) ==
    [type |-> "query", protocol_version |-> protocol_version]

\* No call is running and nothing a call produced is waiting for the host.
Idle == inbound = None /\ call = [op |-> "idle"]

(***************************************************************************)
(* A1.process_message                                                      *)
(***************************************************************************)
\* int(x) as make_message_set and process_message apply it to water_level_set.
CanInt(x) == x.t = "int" \/ (x.t = "str" /\ IsIntStr(x.s))
py_int(x) == IF x.t = "int" THEN x.i ELSE int(x.s)

\* Lines 123-136: the value stored for one exposed field.
\* (mutant) a 0-based lookup, as the EC tables are read
A1_decode_mode_zero_based(value) ==
    IF value < Len(_modes) THEN PyStr(PyIndex(_modes, value)) ELSE None

A1_decode_mode(value) ==
    IF value <= Len(_modes) THEN PyStr(PyIndex(_modes, value - 1)) ELSE None

\* (mutant) _speeds.get(value, value): an unknown code is stored as it came
A1_decode_fan_speed_unchecked(value) ==
    IF value \in DOMAIN _speeds THEN PyStr(_speeds[value]) ELSE PyInt(value)

A1_decode_fan_speed(value) ==
    IF value \in DOMAIN _speeds THEN PyStr(_speeds[value]) ELSE None

A1_decode_water_level_set(value) == PyStr(str(value))

A1_decode(status, value) ==
    IF status = "mode" THEN A1_decode_mode(value.i)
    ELSE IF status = "fan_speed" THEN A1_decode_fan_speed(value.i)
    ELSE IF status = "water_level_set" THEN A1_decode_water_level_set(value.i)
    ELSE value

\* (mutant) tank > water_level
tank_full_calculated_strict(attrs) ==
    LET tank == attrs.tank.i
        water_level == py_int(attrs.water_level_set)
    IN  IF tank # 0 THEN tank > water_level ELSE FALSE

\* Line 140: tank >= water_level if bool(tank) else False
tank_full_calculated(attrs) ==
    LET tank == attrs.tank.i
        water_level == py_int(attrs.water_level_set)
    IN  IF tank # 0 THEN tank >= water_level ELSE FALSE

\* (mutant) tank_full is updated but left out of the report
A1_process_field_silent(attrs, new_status, status, value) ==
    LET a1 == [attrs EXCEPT ![status] = A1_decode(status, value)]
        tank_full == a1.tank_full
        calculated == PyBool(tank_full_calculated(a1))
        update == tank_full = None \/ tank_full # calculated
        a2 == IF update THEN [a1 EXCEPT !.tank_full = calculated] ELSE a1
    IN  [attributes |-> a2, new_status |-> Put(new_status, status, a2[status])]

\* Lines 122-152: the loop body for one exposed field.
A1_process_field(attrs, new_status, status, value) ==
    LET a1 == [attrs EXCEPT ![status] = A1_decode(status, value)]
        tank_full == a1.tank_full
        calculated == PyBool(tank_full_calculated(a1))
        update == tank_full = None \/ tank_full # calculated
        a2 == IF update THEN [a1 EXCEPT !.tank_full = calculated] ELSE a1
        s1 == IF update THEN Put(new_status, "tank_full", calculated) ELSE new_status
    IN  [attributes |-> a2, new_status |-> Put(s1, status, a2[status])]

\* Lines 120-121: for status in self._attributes, in declaration order.
RECURSIVE A1_loop(_, _, _, _)
A1_loop(attrs, new_status, message, k) ==
    IF k > Len(A1_DeviceAttributes) THEN [attributes |-> attrs, new_status |-> new_status]
    ELSE LET status == A1_DeviceAttributes[k] IN
         IF hasattr(message, status)
         THEN LET r == A1_process_field(attrs, new_status, status, getattr(message, status))
              IN  A1_loop(r.attributes, r.new_status, message, k + 1)
         ELSE A1_loop(attrs, new_status, message, k + 1)

A1_process_message ==
    /\ device_type = "A1"
    /\ inbound # None
    /\ LET message == inbound
           r == A1_loop(attributes, EmptyDict, message, 1)
       IN  /\ message_protocol_version' = message.protocol_version
           /\ attributes' = r.attributes
           /\ result' = r.new_status
    /\ inbound' = None
    /\ call' = [op |-> "process_message", exposed |-> DOMAIN inbound.body]
    /\ UNCHANGED <<device_type, transmitted, published, raised>>

(***************************************************************************)
(* A1.make_message_set and A1.set_attribute                                *)
(***************************************************************************)
\* Lines 166-171
A1_encode_mode(mode) ==
    IF mode.t = "str" /\ mode.s \in Range(_modes)
    THEN index(_modes, mode.s) + 1
    ELSE 1

\* Lines 172-180; list.index raises ValueError for a value that is not in the list.
A1_fan_speed_raises(fan_speed) ==
    fan_speed # None /\ ~(fan_speed.t = "str" /\ fan_speed.s \in Range(_speeds_values))

\* (mutant) the fallback is the lowest code of the table
A1_encode_fan_speed_lowest(fan_speed) ==
    IF fan_speed = None THEN _speeds_keys[1]
    ELSE _speeds_keys[index(_speeds_values, fan_speed.s) + 1]

A1_encode_fan_speed(fan_speed) ==
    IF fan_speed = None THEN 40
    ELSE _speeds_keys[index(_speeds_values, fan_speed.s) + 1]

\* Lines 184-186
A1_encode_water_level_set(water_level_set) == py_int(water_level_set)

make_message_set_raises(attrs) ==
    A1_fan_speed_raises(attrs.fan_speed) \/ ~CanInt(attrs.water_level_set)

make_message_set(attrs, protocol_version) ==
    [type |-> "set",
     protocol_version |-> protocol_version,
     body |-> [power |-> attrs.power,
               prompt_tone |-> attrs.prompt_tone,
               child_lock |-> attrs.child_lock,
               mode |-> PyInt(A1_encode_mode(attrs.mode)),
               fan_speed |-> PyInt(A1_encode_fan_speed(attrs.fan_speed)),
               target_humidity |-> attrs.target_humidity,
               swing |-> attrs.swing,
               anion |-> attrs.anion,
               water_level_set |-> PyInt(A1_encode_water_level_set(attrs.water_level_set))]]

\* (mutant) a mode that is not in the table is sent as the first mode
A1_override_defaulting(message, attr, value) ==
    IF attr = "mode" THEN
        IF value.t = "str" /\ value.s \in Range(_modes)
        THEN [message EXCEPT !.body.mode = PyInt(index(_modes, value.s) + 1)]
        ELSE [message EXCEPT !.body.mode = PyInt(1)]
    ELSE IF attr = "fan_speed" THEN
        IF value.t = "str" /\ value.s \in Range(_speeds_values)
        THEN [message EXCEPT
                 !.body.fan_speed = PyInt(_speeds_keys[index(_speeds_values, value.s) + 1])]
        ELSE message
    ELSE IF attr = "water_level_set" THEN
        IF value.t = "str" /\ value.s \in Range(_water_level_sets)
        THEN [message EXCEPT !.body.water_level_set = PyInt(int(value.s))]
        ELSE message
    ELSE [message EXCEPT !.body = Put(message.body, attr, value)]

\* Lines 196-208: the field set_attribute overrides in the full command.
A1_override(message, attr, value) ==
    IF attr = "mode" THEN
        IF value.t = "str" /\ value.s \in Range(_modes)
        THEN [message EXCEPT !.body.mode = PyInt(index(_modes, value.s) + 1)]
        ELSE message
    ELSE IF attr = "fan_speed" THEN
        IF value.t = "str" /\ value.s \in Range(_speeds_values)
        THEN [message EXCEPT
                 !.body.fan_speed = PyInt(_speeds_keys[index(_speeds_values, value.s) + 1])]
        ELSE message
    ELSE IF attr = "water_level_set" THEN
        IF value.t = "str" /\ value.s \in Range(_water_level_sets)
        THEN [message EXCEPT !.body.water_level_set = PyInt(int(value.s))]
        ELSE message
    ELSE [message EXCEPT !.body = Put(message.body, attr, value)]

\* (mutant) prompt_tone takes the path of every other attribute
A1_set_attribute_always_sends(attr, value) ==
    /\ device_type = "A1"
    /\ Idle
    /\ call' = [op |-> "set_attribute", attr |-> attr, value |-> value]
    /\ result' = None
    /\ published' = <<>>
    /\ IF make_message_set_raises(attributes)
       THEN /\ transmitted' = <<>>
            /\ raised' = TRUE
       ELSE /\ transmitted' =
                 <<A1_override(make_message_set(attributes, message_protocol_version),
                               attr, value)>>
            /\ raised' = FALSE
    /\ UNCHANGED <<device_type, attributes, message_protocol_version, inbound>>

\* Lines 189-209
A1_set_attribute(attr, value) ==
    /\ device_type = "A1"
    /\ Idle
    /\ call' = [op |-> "set_attribute", attr |-> attr, value |-> value]
    /\ result' = None
    /\ IF attr = "prompt_tone"
       THEN /\ attributes' = [attributes EXCEPT !.prompt_tone = value]
            /\ published' = <<("prompt_tone" :> value)>>
            /\ transmitted' = <<>>
            /\ raised' = FALSE
       ELSE /\ UNCHANGED attributes
            /\ published' = <<>>
            /\ IF make_message_set_raises(attributes)
               THEN /\ transmitted' = <<>>
                    /\ raised' = TRUE
               ELSE /\ transmitted' =
                         <<A1_override(make_message_set(attributes, message_protocol_version),
                                       attr, value)>>
                    /\ raised' = FALSE
    /\ UNCHANGED <<device_type, message_protocol_version, inbound>>

(***************************************************************************)
(* B1 and EC: process_message and set_attribute                            *)
(***************************************************************************)
\* (mutant) _status.get(value, value): an unknown code is stored as it came
B1_decode_status_raw(value) ==
    IF value \in DOMAIN _status THEN PyStr(_status[value]) ELSE PyInt(value)

B1_decode_status(value) ==
    IF value \in DOMAIN _status THEN PyStr(_status[value]) ELSE None

B1_decode(status, value) ==
    IF status = "status" THEN B1_decode_status(value.i) ELSE value

RECURSIVE B1_loop(_, _, _, _)
B1_loop(attrs, new_status, message, k) ==
    IF k > Len(B1_DeviceAttributes) THEN [attributes |-> attrs, new_status |-> new_status]
    ELSE LET status == B1_DeviceAttributes[k] IN
         IF hasattr(message, status)
         THEN LET a1 == [attrs EXCEPT ![status] = B1_decode(status, getattr(message, status))]
              IN  B1_loop(a1, Put(new_status, status, a1[status]), message, k + 1)
         ELSE B1_loop(attrs, new_status, message, k + 1)

B1_process_message ==
    /\ device_type = "B1"
    /\ inbound # None
    /\ LET message == inbound
           r == B1_loop(attributes, EmptyDict, message, 1)
       IN  /\ attributes' = r.attributes
           /\ result' = r.new_status
    /\ inbound' = None
    /\ call' = [op |-> "process_message", exposed |-> DOMAIN inbound.body]
    /\ UNCHANGED <<device_type, message_protocol_version, transmitted, published, raised>>

EC_decode_progress(value) ==
    IF value < Len(_progress) THEN PyStr(PyIndex(_progress, value)) ELSE PyStr("Unknown")

EC_decode_mode(value) ==
    IF value < Len(_mode_list) THEN PyStr(PyIndex(_mode_list, value)) ELSE PyStr("Cloud")

EC_decode(status, value) ==
    IF status = "progress" THEN EC_decode_progress(value.i)
    ELSE IF status = "mode" THEN EC_decode_mode(value.i)
    ELSE value

RECURSIVE EC_loop(_, _, _, _)
EC_loop(attrs, new_status, message, k) ==
    IF k > Len(EC_DeviceAttributes) THEN [attributes |-> attrs, new_status |-> new_status]
    ELSE LET status == EC_DeviceAttributes[k] IN
         IF hasattr(message, status)
         THEN LET a1 == [attrs EXCEPT ![status] = EC_decode(status, getattr(message, status))]
              IN  EC_loop(a1, Put(new_status, status, a1[status]), message, k + 1)
         ELSE EC_loop(attrs, new_status, message, k + 1)

EC_process_message ==
    /\ device_type = "EC"
    /\ inbound # None
    /\ LET message == inbound
           r == EC_loop(attributes, EmptyDict, message, 1)
       IN  /\ attributes' = r.attributes
           /\ result' = r.new_status
    /\ inbound' = None
    /\ call' = [op |-> "process_message", exposed |-> DOMAIN inbound.body]
    /\ UNCHANGED <<device_type, message_protocol_version, transmitted, published, raised>>

\* B1.set_attribute and EC.set_attribute: the body is the docstring alone.
B1_EC_set_attribute(attr, value) ==
    /\ device_type \in {"B1", "EC"}
    /\ Idle
    /\ call' = [op |-> "set_attribute", attr |-> attr, value |-> value]
    /\ UNCHANGED <<device_type, attributes, message_protocol_version, inbound, result,
                   transmitted, published, raised>>

\* build_query, the same in the three handlers.
build_query ==
    /\ Idle
    /\ call' = [op |-> "build_query"]
    /\ result' = <<MessageQuery(message_protocol_version)>>
    /\ UNCHANGED <<device_type, attributes, message_protocol_version, inbound,
                   transmitted, published, raised>>

(***************************************************************************)
(* The host: it hands a parsed message to process_message, and takes what  *)
(* a call returned, sent or published before the next call.                *)
(***************************************************************************)
dispatch(message) ==
    /\ Idle
    /\ inbound' = message
    /\ UNCHANGED <<device_type, attributes, message_protocol_version, call, result,
                   transmitted, published, raised>>

return ==
    /\ call # [op |-> "idle"]
    /\ call' = [op |-> "idle"]
    /\ result' = None
    /\ transmitted' = <<>>
    /\ published' = <<>>
    /\ raised' = FALSE
    /\ UNCHANGED <<device_type, attributes, message_protocol_version, inbound>>

(***************************************************************************)
(* Inputs: the messages the codec hands to process_message and the         *)
(* requests the application makes.                                         *)
(***************************************************************************)
\* The codes a table knows, the code after the last, and both ends of the raw range.
Boundary(codes) ==
    codes \cup {0, MaxRaw} \cup {c + 1 : c \in {m \in codes : \A x \in codes : x <= m}}
Ints(codes) == {PyInt(c) : c \in codes}
Bools == {PyBool(TRUE), PyBool(FALSE)}
Levels == {25 * k : k \in 0..MaxLevel}

A1_values ==
    [mode |-> Ints(Boundary(1..Len(_modes))),
     fan_speed |-> Ints(Boundary(DOMAIN _speeds)),
     water_level_set |-> Ints(Levels)]

B1_values ==
    [door |-> Bools,
     time_remaining |-> Ints(Levels),
     status |-> Ints(Boundary(DOMAIN _status))]

EC_values ==
    [cooking |-> Bools,
     progress |-> Ints(Boundary(0..(Len(_progress) - 1))),
     mode |-> Ints({0, 93, 94, 192, 199, 200, MaxRaw})]

\* The fields around the derived tank_full: its two sources, tank_full itself and
\* a field the loop reaches after them.
A1_tank_values ==
    [tank |-> Ints(Levels),
     water_level_set |-> Ints(Levels),
     tank_full |-> Bools,
     current_humidity |-> Ints({25 * MaxLevel})]

\* Every body that exposes at most MaxFields of `fields`, with values of `values`.
RECURSIVE Bodies(_, _)
Bodies(values, fields) ==
    IF fields = {} THEN {EmptyDict}
    ELSE LET f == CHOOSE x \in fields : TRUE
             rest == Bodies(values, fields \ {f})
         IN  rest \cup {Put(b, f, v) :
                          b \in {r \in rest : Cardinality(DOMAIN r) < MaxFields},
                          v \in values[f]}

Messages(values) ==
    {[protocol_version |-> v, body |-> b] :
        v \in ProtocolVersions, b \in Bodies(values, DOMAIN values)}

\* Every body over `fields`, whatever the number of fields it exposes.
RECURSIVE AllBodies(_, _)
AllBodies(values, fields) ==
    IF fields = {} THEN {EmptyDict}
    ELSE LET f == CHOOSE x \in fields : TRUE
             rest == AllBodies(values, fields \ {f})
         IN  rest \cup {Put(b, f, v) : b \in rest, v \in values[f]}

A1_messages == Messages(A1_values)
B1_messages == Messages(B1_values)
EC_messages == Messages(EC_values)
A1_tank_messages ==
    {[protocol_version |-> v, body |-> b] :
        v \in ProtocolVersions, b \in AllBodies(A1_tank_values, DOMAIN A1_tank_values)}

\* set_attribute(attr, value) requests.
A1_requests ==
    {<<"prompt_tone", v>> : v \in Bools \cup {PyStr("on")}}
    \cup {<<"mode", PyStr(s)>> : s \in Range(_modes) \cup {"Turbo"}}
    \cup {<<"fan_speed", PyStr(s)>> : s \in Range(_speeds_values) \cup {"Turbo"}}
    \cup {<<"water_level_set", PyStr(s)>> : s \in Range(_water_level_sets) \cup {"30"}}
    \cup {<<"water_level_set", PyInt(50)>>, <<"mode", PyInt(3)>>, <<"power", PyBool(TRUE)>>,
          <<"tank", PyInt(25)>>}

B1_EC_requests == {<<"status", PyStr("Working")>>, <<"mode", PyStr("clean")>>,
                   <<"door", PyBool(TRUE)>>}

(***************************************************************************)
(* The handler after construction, and the calls of the host.              *)
(***************************************************************************)
defaults(type) ==
    IF type = "A1" THEN A1_defaults
    ELSE IF type = "B1" THEN B1_defaults
    ELSE EC_defaults

\* MideaDevice.__init__ (base class) sets the version outbound messages start with.
InitialProtocolVersions == ProtocolVersions

Init ==
    /\ device_type \in {"A1", "B1", "EC"}
    /\ attributes = defaults(device_type)
    /\ message_protocol_version \in InitialProtocolVersions
    /\ inbound = None
    /\ call = [op |-> "idle"]
    /\ result = None
    /\ transmitted = <<>>
    /\ published = <<>>
    /\ raised = FALSE

messages(type) ==
    IF type = "A1" THEN A1_messages
    ELSE IF type = "B1" THEN B1_messages
    ELSE EC_messages

Next ==
    \/ \E message \in messages(device_type) : dispatch(message)
    \/ A1_process_message
    \/ B1_process_message
    \/ EC_process_message
    \/ \E r \in A1_requests : A1_set_attribute(r[1], r[2])
    \/ \E r \in B1_EC_requests : B1_EC_set_attribute(r[1], r[2])
    \/ build_query
    \/ return

Spec == Init /\ [][Next]_vars

\* An A1 handler fed with messages about the tank and the water level.
InitTank == Init /\ device_type = "A1"

NextTank ==
    \/ \E message \in A1_tank_messages : dispatch(message)
    \/ A1_process_message
    \/ \E r \in A1_requests : A1_set_attribute(r[1], r[2])
    \/ build_query
    \/ return

SpecTank == InitTank /\ [][NextTank]_vars

(***************************************************************************)
(* Properties                                                              *)
(***************************************************************************)
\* The step in which process_message runs: it consumes the dispatched message.
Decoding == inbound # None /\ inbound' = None

\* The full command the handler would build in the current state.
FullCommand == make_message_set(attributes, message_protocol_version)

\* The stored water level as a number.
StoredWaterLevel ==
    LET w == attributes.water_level_set IN IF w.t = "int" THEN w.i ELSE IntOfStr[w.s]

Labels(list) == {PyStr(l) : l \in Range(list)}

\* C1: A1, at the end of every decode pass whose message exposed at least one
\* schema attribute, tank_full is (tank >= int(water_level_set)) when tank is
\* non-zero and false when tank is zero, whichever fields the message carried.
C1_TankFullDerived ==
    (device_type = "A1" /\ call.op = "process_message" /\ call.exposed # {}) =>
        attributes.tank_full =
            PyBool(attributes.tank.i # 0 /\ attributes.tank.i >= StoredWaterLevel)

\* A pass that carried the water level but not the tank, after which the tank is full.
C1_Witness ==
    /\ device_type = "A1" /\ call.op = "process_message"
    /\ call.exposed = {"water_level_set", "current_humidity"}
    /\ attributes.tank = PyInt(50)
    /\ attributes.water_level_set = PyStr("25")
    /\ attributes.tank_full = PyBool(TRUE)

\* C2: A1, decoding a message whose mode field is the raw code v stores the v-th
\* entry of the mode table when 1 <= v <= 5 and null for every other code, 0 included.
C2_ModeDecode ==
    [][(device_type = "A1" /\ Decoding /\ hasattr(inbound, "mode")) =>
          LET v == getattr(inbound, "mode").i IN
          attributes'.mode = IF 1 <= v /\ v <= 5 THEN PyStr(_modes[v]) ELSE None]_vars

\* C3 as claimed: the full command carries mode 1 when the stored mode is null or
\* no label of the table, and the lowest non-zero code of the fan-speed table when
\* the stored fan speed is null.
C3_FallbackLowest ==
    device_type = "A1" =>
        /\ attributes.mode \notin Labels(_modes) => FullCommand.body.mode = PyInt(1)
        /\ attributes.fan_speed = None =>
              \A c \in DOMAIN _speeds \ {0} : FullCommand.body.fan_speed.i <= c

\* C3 as amended: the full command carries mode 1 when the stored mode is null or
\* no label of the table, and 40 (the code of "Low") when the stored fan speed is null.
C3_Fallback ==
    device_type = "A1" =>
        /\ attributes.mode \notin Labels(_modes) => FullCommand.body.mode = PyInt(1)
        /\ attributes.fan_speed = None =>
              /\ FullCommand.body.fan_speed = PyInt(40)
              /\ _speeds[40] = "Low"

\* A full command sent while neither the mode nor the fan speed is known.
C3_Witness ==
    /\ device_type = "A1" /\ call.op = "set_attribute" /\ call.attr = "power"
    /\ attributes.mode = None /\ attributes.fan_speed = None
    /\ Len(transmitted) = 1
    /\ transmitted[1].body.mode = PyInt(1)
    /\ transmitted[1].body.fan_speed = PyInt(40)

\* C4 as claimed: in every reachable A1 state the full command is built without an
\* exception and carries a mode in 1..5, a fan speed among the codes of the
\* fan-speed table and a water level among 25, 50, 75, 100.
C4_EncodeInTables ==
    device_type = "A1" =>
        /\ ~make_message_set_raises(attributes)
        /\ FullCommand.body.mode.i \in 1..5
        /\ FullCommand.body.fan_speed.i \in {1, 40, 60, 80, 102, 127}
        /\ FullCommand.body.water_level_set.i \in {25, 50, 75, 100}

\* C4 as amended: in every reachable A1 state the full command is built without an
\* exception and carries a mode in 1..5, a fan speed among the codes of the
\* fan-speed table, and as water level the number the stored water level stands
\* for: the default 50 or the last raw code decoded, a table code or not.
C4_EncodeTotal ==
    device_type = "A1" =>
        /\ ~make_message_set_raises(attributes)
        /\ FullCommand.body.mode.i \in 1..5
        /\ FullCommand.body.fan_speed.i \in {1, 40, 60, 80, 102, 127}
        /\ FullCommand.body.water_level_set = PyInt(StoredWaterLevel)
        /\ StoredWaterLevel \in RawCodes

\* A full command sent after the device reported a water level outside the table.
C4_Witness ==
    /\ device_type = "A1" /\ call.op = "set_attribute" /\ ~raised
    /\ attributes.water_level_set = PyStr("0")
    /\ attributes.fan_speed = None
    /\ Len(transmitted) = 1
    /\ transmitted[1].body.water_level_set = PyInt(0)

\* C5: A1 set_attribute(prompt_tone, value) hands nothing to the transport, stores
\* the value, publishes that one pair and leaves every other attribute unchanged.
C5_PromptToneLocal ==
    [][(device_type = "A1" /\ call.op = "idle" /\ call'.op = "set_attribute"
           /\ call'.attr = "prompt_tone") =>
          /\ transmitted' = <<>>
          /\ ~raised'
          /\ attributes'.prompt_tone = call'.value
          /\ \A a \in DOMAIN attributes \ {"prompt_tone"} : attributes'[a] = attributes[a]
          /\ DOMAIN attributes' = DOMAIN attributes
          /\ published' = <<("prompt_tone" :> call'.value)>>]_vars

\* prompt_tone switched off locally on a device whose fan speed has been decoded.
C5_Witness ==
    /\ device_type = "A1" /\ call.op = "set_attribute" /\ call.attr = "prompt_tone"
    /\ call.value = PyBool(FALSE)
    /\ attributes.prompt_tone = PyBool(FALSE)
    /\ attributes.fan_speed = PyStr("High")
    /\ published = <<("prompt_tone" :> PyBool(FALSE))>>
    /\ transmitted = <<>>

\* The declared domain of an enumerated A1 attribute.
A1_domain(attr) ==
    IF attr = "mode" THEN Labels(_modes)
    ELSE IF attr = "fan_speed" THEN Labels(_speeds_values)
    ELSE Labels(_water_level_sets)

\* C6: A1 set_attribute of mode, fan_speed or water_level_set with a value outside
\* the attribute's domain raises nothing and sends exactly the full command of the
\* current state.
C6_InvalidRequestIsNoOp ==
    (/\ device_type = "A1" /\ call.op = "set_attribute"
     /\ call.attr \in {"mode", "fan_speed", "water_level_set"}
     /\ call.value \notin A1_domain(call.attr)) =>
        /\ ~raised
        /\ transmitted = <<FullCommand>>

\* An unknown fan-speed label requested while the stored fan speed is "High".
C6_Witness ==
    /\ device_type = "A1" /\ call.op = "set_attribute" /\ call.attr = "fan_speed"
    /\ call.value = PyStr("Turbo")
    /\ attributes.fan_speed = PyStr("High")
    /\ Len(transmitted) = 1
    /\ transmitted[1].body.fan_speed = PyInt(80)

\* C7: in every variant, decoding a message tagged with protocol version v makes
\* the outbound messages built afterwards (the query, and the A1 full command)
\* carry v, and no other call changes the version they carry.
C7_VersionThreaded ==
    [][/\ Decoding =>
            /\ MessageQuery(message_protocol_version').protocol_version
                   = inbound.protocol_version
            /\ device_type = "A1" =>
                   make_message_set(attributes', message_protocol_version').protocol_version
                       = inbound.protocol_version
       /\ ~Decoding => message_protocol_version' = message_protocol_version]_vars

\* The inverse of a table: the code of a label (list.index for a list).
B1_encode_status(label) == CHOOSE c \in DOMAIN _status : _status[c] = label
EC_encode_progress(label) == index(_progress, label)

\* What process_message stores from a message that carries one field.
Carrying(field, code) == [protocol_version |-> 1, body |-> (field :> PyInt(code))]
A1_after(field, code) == A1_loop(attributes, EmptyDict, Carrying(field, code), 1).attributes
B1_after(field, code) == B1_loop(attributes, EmptyDict, Carrying(field, code), 1).attributes
EC_after(field, code) == EC_loop(attributes, EmptyDict, Carrying(field, code), 1).attributes

\* The label a field of the command just sent stands for: the requested one when
\* set_attribute overrode the field, the stored one otherwise.
A1_encoded_label(attr) ==
    IF call.attr = attr /\ call.value \in A1_domain(attr) THEN call.value
    ELSE attributes[attr]

\* C8: for every label L of the A1 mode, fan-speed and water-level tables, of the B1
\* status table and of the EC progress table, decoding a message that carries the
\* code L is encoded to stores L.  For A1 the codes are those of the command that
\* set_attribute has just sent; B1 and EC encode nothing, and the code is the
\* inverse of the table at the stored label.
C8_RoundTrip ==
    /\ (device_type = "A1" /\ call.op = "set_attribute" /\ Len(transmitted) = 1) =>
          \A attr \in {"mode", "fan_speed", "water_level_set"} :
              A1_encoded_label(attr) \in A1_domain(attr) =>
                  A1_after(attr, transmitted[1].body[attr].i)[attr] = A1_encoded_label(attr)
    /\ (device_type = "B1" /\ attributes.status # None) =>
          B1_after("status", B1_encode_status(attributes.status.s)).status
              = attributes.status
    /\ (device_type = "EC" /\ attributes.progress \in Labels(_progress)) =>
          EC_after("progress", EC_encode_progress(attributes.progress.s)).progress
              = attributes.progress

\* set_attribute has sent the code of "Auto" while another mode is stored, and
\* decoding that code would store "Auto".
C8_Witness ==
    /\ device_type = "A1" /\ call.op = "set_attribute" /\ call.attr = "mode"
    /\ call.value = PyStr("Auto")
    /\ attributes.mode = PyStr("Shoes-Dry")
    /\ Len(transmitted) = 1
    /\ transmitted[1].body.mode = PyInt(3)
    /\ A1_after("mode", transmitted[1].body.mode.i).mode = PyStr("Auto")

\* C9: A1, when a message that exposes no tank_full field is decoded and the stored
\* tank_full differs from the one stored before, the report maps tank_full to the
\* new stored value.
C9_TankFullReported ==
    [][(/\ device_type = "A1" /\ Decoding
        /\ ~hasattr(inbound, "tank_full")
        /\ attributes'.tank_full # attributes.tank_full) =>
          /\ "tank_full" \in DOMAIN result'
          /\ result'["tank_full"] = attributes'.tank_full]_vars

\* The emptied tank: a message carrying tank = 0 alone, reported with tank_full = false
\* while the water level stays at "50".
C9_Witness ==
    /\ device_type = "A1" /\ call.op = "process_message"
    /\ call.exposed = {"tank"}
    /\ attributes.water_level_set = PyStr("50")
    /\ result = [tank |-> PyInt(0), tank_full |-> PyBool(FALSE)]

\* C10: every table-translated attribute holds its default, a label of its table or
\* its sentinel, never a raw code: A1 mode and fan_speed a label or null, B1 status
\* a label or null, EC progress a label or "Unknown", EC mode a catalog label,
\* "Cloud" or the default 0.
C10_TranslatedOnly ==
    /\ device_type = "A1" =>
          /\ attributes.mode \in Labels(_modes) \cup {None}
          /\ attributes.fan_speed \in Labels(_speeds_values) \cup {None}
    /\ device_type = "B1" =>
          attributes.status \in {PyStr(_status[c]) : c \in DOMAIN _status} \cup {None}
    /\ device_type = "EC" =>
          /\ attributes.progress \in Labels(_progress) \cup {PyStr("Unknown")}
          /\ attributes.mode \in Labels(_mode_list) \cup {PyStr("Cloud"), PyInt(0)}

\* An EC message with a program index beyond the catalog has been decoded.
C10_Witness ==
    /\ device_type = "EC" /\ call.op = "process_message"
    /\ call.exposed = {"mode"}
    /\ attributes.mode = PyStr("Cloud")
    /\ attributes.progress = PyStr("Lid-open")

====
